---- MODULE Spec2Model ----
(***************************************************************************)
(* Payment-gated chat endpoint (x402 over Monad testnet).                  *)
(*                                                                         *)
(* The server handler POST reads the x-payment header, verifies the        *)
(* transaction it names against the ledger RPC node (verifyPayment), and   *)
(* only then hands the chat request to the completion capability           *)
(* (streamText).  Every await of the handler is one step of the model.     *)
(*                                                                         *)
(* Text the code inspects character by character (addresses, transaction   *)
(* values, the proof string inside the receipt header) is a sequence of    *)
(* one-character strings; a BigInt is its little-endian sequence of        *)
(* decimal digits without leading zeros (<<>> is 0n).                      *)
(***************************************************************************)
EXTENDS Integers, Sequences, FiniteSets, TLC

\* ------------------------------------------------------------------ bounds
\* Number of requests the endpoint receives in one behaviour.
NumReqs == 2

\* how many chunks a completion is streamed in at most
MaxChunks == 1

Reqs == 1..NumReqs

\* ------------------------------------------------------- JavaScript values
\* A value read from a header, the environment or a JSON document carries
\* its type: undefined, null, a number, a string (its characters in s) or
\* an object (its fields).
JsUndefined == [t |-> "undefined"]
JsNull == [t |-> "null"]
JsNumber == [t |-> "number"]
Str(s) == [t |-> "string", s |-> s]

\* as if the test were `v == null`: the empty string passes
Truthy_emptyString(v) == v.t \notin {"undefined", "null"}

\* as if the test were `typeof v === 'string'`: every string passes
Truthy_anyString(v) == v.t = "string"

\* ToBoolean: undefined, null and the empty string are falsy
Truthy(v) == ~(v.t \in {"undefined", "null"} \/ (v.t = "string" /\ v.s = <<>>))

\* ------------------------------------------------------------ text helpers
UpperChars == <<"A","B","C","D","E","F","G","H","I","J","K","L","M",
                "N","O","P","Q","R","S","T","U","V","W","X","Y","Z">>
LowerChars == <<"a","b","c","d","e","f","g","h","i","j","k","l","m",
                "n","o","p","q","r","s","t","u","v","w","x","y","z">>
DecChars == <<"0","1","2","3","4","5","6","7","8","9">>
HexLowerChars == <<"a","b","c","d","e","f">>
HexUpperChars == <<"A","B","C","D","E","F">>

IndexOf(tbl, c) == CHOOSE i \in 1..Len(tbl) : tbl[i] = c
InTable(tbl, c) == \E i \in 1..Len(tbl) : tbl[i] = c

\* String.prototype.toLowerCase, one character
toLowerChar(c) == IF InTable(UpperChars, c) THEN LowerChars[IndexOf(UpperChars, c)] ELSE c

\* String.prototype.toLowerCase
toLowerCase(s) == [i \in 1..Len(s) |-> toLowerChar(s[i])]

\* ------------------------------------------------------------------ BigInt
IsDecChar(c) == InTable(DecChars, c)
IsHexChar(c) == InTable(DecChars, c) \/ InTable(HexLowerChars, c) \/ InTable(HexUpperChars, c)

HexDigitValue(c) ==
    IF InTable(DecChars, c) THEN IndexOf(DecChars, c) - 1
    ELSE IF InTable(HexLowerChars, c) THEN IndexOf(HexLowerChars, c) + 9
    ELSE IndexOf(HexUpperChars, c) + 9

\* n * m + c on a little-endian digit sequence
RECURSIVE BigMulAdd(_, _, _)
BigMulAdd(n, m, c) ==
    IF n = <<>>
    THEN IF c = 0 THEN <<>> ELSE <<c % 10>> \o BigMulAdd(<<>>, m, c \div 10)
    ELSE LET v == Head(n) * m + c
         IN  <<v % 10>> \o BigMulAdd(Tail(n), m, v \div 10)

\* digits of radix `radix` (most significant first) to a BigInt
RECURSIVE BigFromDigits(_, _, _)
BigFromDigits(chars, radix, acc) ==
    IF chars = <<>> THEN acc
    ELSE BigFromDigits(Tail(chars), radix, BigMulAdd(acc, radix, HexDigitValue(Head(chars))))

\* drop the most significant zeros
RECURSIVE BigNormalize(_)
BigNormalize(n) ==
    IF n = <<>> THEN <<>>
    ELSE IF n[Len(n)] = 0 THEN BigNormalize(SubSeq(n, 1, Len(n) - 1))
    ELSE n

IsHexLiteral(s) ==
    /\ Len(s) >= 3
    /\ s[1] = "0"
    /\ s[2] \in {"x", "X"}
    /\ \A i \in 3..Len(s) : IsHexChar(s[i])

IsDecLiteral(s) == \A i \in 1..Len(s) : IsDecChar(s[i])

\* BigInt(string) succeeds (StringToBigInt): the empty string is 0n, a 0x
\* literal needs one hex digit at least, anything else must be decimal
\* digits; otherwise BigInt throws a SyntaxError.
BigIntParses(s) == IsHexLiteral(s) \/ IsDecLiteral(s)

BigInt(s) ==
    IF IsHexLiteral(s)
    THEN BigNormalize(BigFromDigits(SubSeq(s, 3, Len(s)), 16, <<>>))
    ELSE BigNormalize(BigFromDigits(s, 10, <<>>))

\* a <= b where a < b is meant
BigLess_orEqual(a, b) ==
    \/ Len(a) < Len(b)
    \/ /\ Len(a) = Len(b)
       /\ \A i \in 1..Len(a) :
            (\A j \in (i+1)..Len(a) : a[j] = b[j]) => a[i] <= b[i]

\* a < b on BigInts: fewer digits, or the same number of digits and the
\* most significant differing digit smaller
BigLess(a, b) ==
    \/ Len(a) < Len(b)
    \/ /\ Len(a) = Len(b)
       /\ \E i \in 1..Len(a) :
            /\ a[i] < b[i]
            /\ \A j \in (i+1)..Len(a) : a[j] = b[j]

\* the digits in storage order, least significant first
BigToString_littleEndian(n) ==
    IF n = <<>> THEN <<"0">>
    ELSE [i \in 1..Len(n) |-> DecChars[n[i] + 1]]

\* BigInt.prototype.toString(): decimal text, most significant digit first
BigToString(n) ==
    IF n = <<>> THEN <<"0">>
    ELSE [i \in 1..Len(n) |-> DecChars[n[Len(n) + 1 - i] + 1]]

\* n divided by a small number d, and the remainder of that division
BigDiv(n, d) ==
    LET rem[i \in 1..(Len(n) + 1)] ==
            IF i = Len(n) + 1 THEN 0 ELSE (rem[i + 1] * 10 + n[i]) % d
    IN  BigNormalize([i \in 1..Len(n) |-> (rem[i + 1] * 10 + n[i]) \div d])

BigMod(n, d) ==
    LET rem[i \in 1..(Len(n) + 1)] ==
            IF i = Len(n) + 1 THEN 0 ELSE (rem[i + 1] * 10 + n[i]) % d
    IN  rem[1]

HexChar(v) == IF v < 10 THEN DecChars[v + 1] ELSE HexLowerChars[v - 9]

RECURSIVE HexDigits(_)
HexDigits(n) ==
    IF n = <<>> THEN <<>> ELSE HexDigits(BigDiv(n, 16)) \o <<HexChar(BigMod(n, 16))>>

\* a quantity as JSON-RPC encodes it: 0x and the hex digits without leading
\* zeros, 0x0 for zero
numberToHex(n) == <<"0","x">> \o (IF n = <<>> THEN <<"0">> ELSE HexDigits(n))

\* the number is taken in gwei: nine places
toWei_gwei(number) ==
    LET dot == IF InTable(number, ".") THEN IndexOf(number, ".") ELSE Len(number) + 1
        whole == SubSeq(number, 1, dot - 1)
        fraction == SubSeq(number, dot + 1, Len(number))
        padded == [i \in 1..9 |-> IF i <= Len(fraction) THEN fraction[i] ELSE "0"]
    IN  BigToString(BigInt(whole \o padded))

\* web3.utils.toWei(number, 'ether'): the decimal text of number * 10^18;
\* the fraction is padded with zeros to 18 places
EtherDecimals == 18
toWei(number) ==
    LET dot == IF InTable(number, ".") THEN IndexOf(number, ".") ELSE Len(number) + 1
        whole == SubSeq(number, 1, dot - 1)
        fraction == SubSeq(number, dot + 1, Len(number))
        padded == [i \in 1..EtherDecimals |-> IF i <= Len(fraction) THEN fraction[i] ELSE "0"]
    IN  BigToString(BigInt(whole \o padded))

\* ------------------------------------------------------ program constants
MONAD_TESTNET_CHAIN_ID == 10143

QUERY_PRICE_MON == "0.001"

QUERY_PRICE_WEI == BigInt(<<"1","0","0","0","0","0","0","0","0","0","0","0","0","0","0","0">>)

\* Number.prototype.toString() of a positive integer
RECURSIVE NumberToString(_)
NumberToString(n) ==
    IF n < 10 THEN DecChars[n + 1]
    ELSE NumberToString(n \div 10) \o DecChars[(n % 10) + 1]

\* JSON.stringify of a string: the text between the quotes, with the quote
\* and the backslash escaped
RECURSIVE QuoteJSONString(_)
QuoteJSONString(s) ==
    IF s = <<>> THEN <<>>
    ELSE IF Head(s) \in {"\"", "\\"} THEN <<"\\", Head(s)>> \o QuoteJSONString(Tail(s))
    ELSE <<Head(s)>> \o QuoteJSONString(Tail(s))

\* JSON.parse of the text between the quotes of a JSON string
RECURSIVE UnquoteJSONString(_)
UnquoteJSONString(s) ==
    IF s = <<>> THEN <<>>
    ELSE IF Head(s) = "\\" /\ Len(s) >= 2
         THEN <<s[2]>> \o UnquoteJSONString(SubSeq(s, 3, Len(s)))
         ELSE <<Head(s)>> \o UnquoteJSONString(Tail(s))

ReceiptPrefix == <<"{", "\"", "t", "x", "H", "a", "s", "h", "\"", ":", "\"">>
ReceiptSuffix == <<"\"", ",", "\"", "v", "e", "r", "i", "f", "i", "e", "d", "\"", ":", "t", "r", "u", "e", "}">>

\* JSON.stringify({ txHash: paymentData, verified: true })
StringifyReceipt(txHash) == ReceiptPrefix \o QuoteJSONString(txHash) \o ReceiptSuffix

\* --------------------------------------------------------------- the inputs
\* recipient addresses (0x and two hex digits stand for the forty)
AddrAb == <<"0","x","A","b">>
AddraB == <<"0","x","a","B">>
AddrAc == <<"0","x","A","c">>

\* process.env.SERVER_WALLET: unset, set to the empty string, or an address
ServerWallets == {JsUndefined, Str(<<>>), Str(AddrAb)}

\* transaction values as the RPC node reports them
\* 0x38d7ea4c67fff = 10^15 - 1, 0x38d7ea4c68000 = 10^15, 0x38D7EA4C68001 = 10^15 + 1
ValBelow == <<"0","x","3","8","d","7","e","a","4","c","6","7","f","f","f">>
ValExact == <<"0","x","3","8","d","7","e","a","4","c","6","8","0","0","0">>
ValAbove == <<"0","x","3","8","D","7","E","A","4","C","6","8","0","0","1">>
\* 2^96 - 1, far above the price
ValHuge == <<"0","x","f","f","f","f","f","f","f","f","f","f","f","f",
             "f","f","f","f","f","f","f","f","f","f","f","f">>
\* not a number
ValGarbage == <<"0","x","z","z">>

TxValues == {JsUndefined, Str(<<>>), Str(ValBelow), Str(ValExact), Str(ValAbove),
             Str(ValHuge), Str(ValGarbage)}

TxRecipients == {JsNull, JsNumber, Str(AddrAb), Str(AddraB), Str(AddrAc)}

StatusSuccess == <<"0","x","1">>
StatusFailed == <<"0","x","0">>

\* results of eth_getTransactionReceipt and of eth_getTransactionByHash
RpcReceipts == {JsNull} \cup
               {[t |-> "object", status |-> st] :
                    st \in {JsUndefined, Str(StatusSuccess), Str(StatusFailed)}}
RpcTransactions == {JsNull} \cup
                   {[t |-> "object", to |-> a, value |-> v] :
                        a \in TxRecipients, v \in TxValues}

\* x-payment header values: a transaction hash the node may know, one it
\* does not know (with characters JSON escapes), and the empty string
HashKnown == <<"0","x","7","E">>
HashOther == <<"q","\"","\\">>
TxHashes == {HashKnown, HashOther}
PaymentHeaders == {JsNull, Str(<<>>), Str(HashKnown), Str(HashOther)}

\* what the configured RPC endpoint answers to one JSON-RPC call: the call
\* fails (fetch rejects, or the body is not JSON), or it yields a document
\* whose result field is `result` (undefined for an error document)
RpcThrow == [k |-> "throw"]
RpcData(v) == [k |-> "data", result |-> v]
NoReply == [k |-> "none"]

\* chat request bodies: not JSON at all, the JSON value null, or an object
\* with optional messages and model (every shape of messages with a known
\* model, every model with a one-message history)
MsgUser == [t |-> "object", role |-> "user", content |-> "hi"]
MsgTool == [t |-> "object", role |-> "tool", content |-> "out"]
MessagesValues == {JsUndefined, Str(<<"h","i">>), [t |-> "array", items |-> <<>>],
                   [t |-> "array", items |-> <<MsgUser>>],
                   [t |-> "array", items |-> <<MsgUser, MsgTool>>],
                   [t |-> "array", items |-> <<JsNull>>]}
ModelIds == {"undefined", "gemini-1.5-pro", "gpt-4", "constructor"}
NotJSON == [t |-> "not-json"]
RequestBodies == {NotJSON, JsNull} \cup
                 {[t |-> "object", messages |-> m, model |-> "gemini-1.5-pro"] :
                      m \in MessagesValues} \cup
                 {[t |-> "object", messages |-> [t |-> "array", items |-> <<MsgUser>>],
                   model |-> id] : id \in ModelIds}
NoBody == [t |-> "unread"]

\* ---------------------------------------------------------------- the state
VARIABLES
    serverWallet,     \* process.env.SERVER_WALLET
    ledger,           \* what the RPC node holds for each transaction hash
    pc,               \* where POST stands for each request
    paymentData,      \* the request's x-payment header
    receiptReply,     \* the answer to eth_getTransactionReceipt
    txReply,          \* the answer to eth_getTransactionByHash
    isValid,          \* what verifyPayment returned
    oracleCalls,      \* the JSON-RPC calls issued for the request
    body,             \* what request.json() produced
    streamTextCalls,  \* the calls of streamText made for the request
    response,         \* the response returned by POST
    streamed          \* what has been sent of the body of a streaming response

serverVars == <<serverWallet, ledger, pc, paymentData, receiptReply, txReply, isValid,
                oracleCalls, body, streamTextCalls, response, streamed>>

\* the page in the browser, its wallet and the requests it has sent
VARIABLES
    page,             \* which page runs: "part_002" (handleFormSubmit) or "route.ts" (paymentFetch)
    endpoint,         \* which POST serves /api/chat to the page: "part_000" or "route.ts"
    connected,        \* web3 && account
    publicWallet,     \* process.env.NEXT_PUBLIC_SERVER_WALLET_ADDRESS
    cpc,              \* the await at which the page's handler stands
    awaiting,         \* the request whose response the handler awaits, 0 for none
    consumed,         \* how many reads of the response body have returned
    sent,             \* the requests fetch has sent to /api/chat
    submission,       \* how many submissions have been started
    currentInput,     \* the text the running submission took from the input box
    inputValue,       \* the text of the input box
    isSubmitting,
    paymentStatus,
    lastTxHash,
    storage,          \* localStorage['x402_payment_hash']
    messages,         \* the chat messages the page holds
    toasts,           \* the toasts shown, in order
    transfers,        \* the calls of web3.eth.sendTransaction, in order
    thrown            \* the error paymentFetch threw to its caller

clientVars == <<page, endpoint, connected, publicWallet, cpc, awaiting, consumed, sent, submission,
                currentInput, inputValue, isSubmitting, paymentStatus, lastTxHash, storage,
                messages, toasts, transfers, thrown>>

vars == <<serverVars, clientVars>>

NoRequest == [t |-> "none"]

\* the page as it is mounted: no wallet activity, nothing typed, nothing sent
ClientMounted ==
    /\ cpc = "ready"
    /\ awaiting = 0
    /\ consumed = 0
    /\ sent = [r \in Reqs |-> NoRequest]
    /\ submission = 0
    /\ currentInput = <<>>
    /\ inputValue = <<>>
    /\ isSubmitting = FALSE
    /\ paymentStatus = "idle"
    /\ lastTxHash = JsNull
    /\ storage = JsNull
    /\ messages = <<>>
    /\ toasts = <<>>
    /\ transfers = <<>>
    /\ thrown = JsNull

NoResponse == [status |-> 0]

LedgerEntries == [receipt : RpcReceipts, tx : RpcTransactions]
UnknownTx == [receipt |-> JsNull, tx |-> JsNull]

Init ==
    /\ serverWallet \in ServerWallets
    /\ ledger \in {l \in [TxHashes -> LedgerEntries] : l[HashOther] = UnknownTx}
    /\ pc = [r \in Reqs |-> "idle"]
    /\ paymentData = [r \in Reqs |-> JsNull]
    /\ receiptReply = [r \in Reqs |-> NoReply]
    /\ txReply = [r \in Reqs |-> NoReply]
    /\ isValid = [r \in Reqs |-> "pending"]
    /\ oracleCalls = [r \in Reqs |-> <<>>]
    /\ body = [r \in Reqs |-> NoBody]
    /\ streamTextCalls = [r \in Reqs |-> <<>>]
    /\ response = [r \in Reqs |-> NoResponse]
    /\ streamed = [r \in Reqs |-> <<>>]
    /\ page = "part_002"
    /\ endpoint = "part_000"
    /\ connected = FALSE
    /\ publicWallet = JsUndefined
    /\ ClientMounted

\* ------------------------------------------------------------ verifyPayment
\* the status of the receipt is not looked at
checkReceipt_anyStatus(reply) ==
    IF reply.k = "throw" THEN "throw"
    ELSE IF ~Truthy(reply.result) THEN "false"
    ELSE "next"

\* after the first fetch: "throw" (into the catch), "false" (return false)
\* or "next" (go on to the second fetch)
checkReceipt(reply) ==
    IF reply.k = "throw" THEN "throw"
    ELSE IF ~Truthy(reply.result) THEN "false"
    ELSE IF reply.result.status # Str(StatusSuccess) THEN "false"
    ELSE "next"

\* tx.to?.toLowerCase(): undefined for a missing recipient; a recipient that
\* is not a string has no toLowerCase and the call throws
recipientThrows(to) == to.t \notin {"undefined", "null", "string"}

\* tx.to without the toLowerCase
txToLower_noFold(to) == IF to.t = "string" THEN to ELSE JsUndefined

txToLower(to) == IF to.t = "string" THEN Str(toLowerCase(to.s)) ELSE JsUndefined

\* tx.value || '0'
valueOrZero(value) == IF Truthy(value) THEN value ELSE Str(<<"0">>)

\* the recipient of the transaction is not compared
checkTransaction_anyRecipient(reply, expectedRecipient) ==
    IF reply.k = "throw" THEN "throw"
    ELSE IF ~Truthy(reply.result) THEN "false"
    ELSE LET tx == reply.result
         IN  IF recipientThrows(tx.to) THEN "throw"
             ELSE IF ~BigIntParses(valueOrZero(tx.value).s) THEN "throw"
             ELSE IF BigLess(BigInt(valueOrZero(tx.value).s), QUERY_PRICE_WEI) THEN "false"
             ELSE "true"

\* after the second fetch: "throw", "false" or "true"
checkTransaction(reply, expectedRecipient) ==
    IF reply.k = "throw" THEN "throw"
    ELSE IF ~Truthy(reply.result) THEN "false"
    ELSE LET tx == reply.result
         IN  IF recipientThrows(tx.to) THEN "throw"
             ELSE IF txToLower(tx.to) # Str(toLowerCase(expectedRecipient.s)) THEN "false"
             ELSE IF ~BigIntParses(valueOrZero(tx.value).s) THEN "throw"
             ELSE IF BigLess(BigInt(valueOrZero(tx.value).s), QUERY_PRICE_WEI) THEN "false"
             ELSE "true"

\* verifyPayment without its try/catch
verifyPayment_catch_rethrow(outcome) == outcome

\* catch (error) { return false }
verifyPayment_catch(outcome) == IF outcome = "throw" THEN "false" ELSE outcome

\* ------------------------------------------------------------ the responses
JsonHeaders == [ContentType |-> "application/json"]

ConfigErrorResponse ==
    [status |-> 500,
     body |-> [error |-> "Server configuration error"],
     headers |-> JsonHeaders]

\* the recipient is repeated in lower case
PaymentRequirement_lowerRecipient(wallet) ==
    [scheme |-> "exact",
     network |-> "eip155:" \o NumberToString(MONAD_TESTNET_CHAIN_ID),
     maxAmountRequired |-> BigToString(QUERY_PRICE_WEI),
     resource |-> "NEXT_PUBLIC_APP_URL/api/chat",
     description |-> "AI Query Payment",
     mimeType |-> "application/json",
     payTo |-> wallet,
     maxTimeoutSeconds |-> 86400,
     asset |-> "native",
     outputSchema |-> [input |-> [type |-> "http", method |-> "POST", discoverable |-> TRUE]],
     extra |-> [recipientAddress |-> Str(toLowerCase(wallet.s)),
                name |-> "MON",
                symbol |-> "MON",
                decimals |-> 18,
                priceFormatted |-> QUERY_PRICE_MON \o " MON"]]

PaymentRequirement(wallet) ==
    [scheme |-> "exact",
     network |-> "eip155:" \o NumberToString(MONAD_TESTNET_CHAIN_ID),
     maxAmountRequired |-> BigToString(QUERY_PRICE_WEI),
     resource |-> "NEXT_PUBLIC_APP_URL/api/chat",
     description |-> "AI Query Payment",
     mimeType |-> "application/json",
     payTo |-> wallet,
     maxTimeoutSeconds |-> 86400,
     asset |-> "native",
     outputSchema |-> [input |-> [type |-> "http", method |-> "POST", discoverable |-> TRUE]],
     extra |-> [recipientAddress |-> wallet,
                name |-> "MON",
                symbol |-> "MON",
                decimals |-> 18,
                priceFormatted |-> QUERY_PRICE_MON \o " MON"]]

ChallengeResponse(wallet) ==
    [status |-> 402,
     body |-> [x402Version |-> 1,
               error |-> "X-PAYMENT header is required",
               accepts |-> <<PaymentRequirement(wallet)>>],
     headers |-> JsonHeaders]

\* the rejection under a status of its own
RejectedResponse_403 ==
    [status |-> 403,
     body |-> [x402Version |-> 1,
               error |-> "Payment verification failed. Please ensure the transaction is confirmed on Monad testnet."],
     headers |-> JsonHeaders]

RejectedResponse ==
    [status |-> 402,
     body |-> [x402Version |-> 1,
               error |-> "Payment verification failed. Please ensure the transaction is confirmed on Monad testnet."],
     headers |-> JsonHeaders]

\* the catch of POST: error?.message || 'Internal server error', and the
\* error's own properties as details
InternalErrorResponse(message) ==
    [status |-> 500,
     body |-> [error |-> IF message = "" THEN "Internal server error" ELSE message,
               details |-> "{stack,message:" \o message \o "}"],
     headers |-> JsonHeaders]

\* the receipt names the hash in lower case
AdmittedResponse_lowerCased(proof) ==
    [status |-> 200,
     body |-> [stream |-> "text"],
     headers |-> [ContentType |-> "text/plain; charset=utf-8",
                  XPaymentReceipt |-> StringifyReceipt(toLowerCase(proof.s))]]

\* the response is returned as toTextStreamResponse made it
AdmittedResponse_noReceipt(proof) ==
    [status |-> 200,
     body |-> [stream |-> "text"],
     headers |-> [ContentType |-> "text/plain; charset=utf-8"]]

AdmittedResponse(proof) ==
    [status |-> 200,
     body |-> [stream |-> "text"],
     headers |-> [ContentType |-> "text/plain; charset=utf-8",
                  XPaymentReceipt |-> StringifyReceipt(proof.s)]]

\* ---------------------------------------------------------- getGoogleModel
\* models[modelId] || google('gemini-2.5-flash'): models is an object
\* literal, so a name it inherits from Object.prototype is found as well
KnownModels == {"gemini-2.5-flash", "gemini-2.0-flash", "gemini-1.5-pro"}
ObjectPrototypeNames == {"constructor", "toString", "valueOf", "hasOwnProperty"}

getGoogleModel(modelId) ==
    IF modelId \in KnownModels THEN modelId
    ELSE IF modelId \in ObjectPrototypeNames THEN "Object.prototype." \o modelId
    ELSE "gemini-2.5-flash"

\* --------------------------------------------------------------------- POST
\* const { messages = [], model } = body
messagesOrDefault(b) ==
    IF b.messages.t = "undefined" THEN [t |-> "array", items |-> <<>>] ELSE b.messages

\* messages.map(msg => ({ role: msg.role, content: msg.content }))
coreMessages(items) == [i \in 1..Len(items) |-> [role |-> items[i].role, content |-> items[i].content]]

\* the message of the error thrown between request.json() and the call of
\* streamText, "" when nothing is thrown
bodyError(b) ==
    IF b.t = "not-json" THEN "Unexpected token in JSON"
    ELSE IF b.t = "null" THEN "Cannot destructure property 'messages' of null"
    ELSE IF messagesOrDefault(b).t # "array" THEN "Messages must be an array"
    ELSE IF \E i \in 1..Len(messagesOrDefault(b).items) : messagesOrDefault(b).items[i].t # "object"
         THEN "Cannot read properties of null (reading 'role')"
    ELSE ""

\* POST from its entry to the first await: the configuration error, the
\* challenge, or the first call of verifyPayment
POSTWith(r, hdr) ==
    /\ pc[r] = "idle"
    /\ paymentData' = [paymentData EXCEPT ![r] = hdr]
    /\ IF ~Truthy(serverWallet)
       THEN /\ response' = [response EXCEPT ![r] = ConfigErrorResponse]
            /\ pc' = [pc EXCEPT ![r] = "done"]
            /\ UNCHANGED oracleCalls
       ELSE IF ~Truthy(hdr)
       THEN /\ response' = [response EXCEPT ![r] = ChallengeResponse(serverWallet)]
            /\ pc' = [pc EXCEPT ![r] = "done"]
            /\ UNCHANGED oracleCalls
       ELSE /\ oracleCalls' = [oracleCalls EXCEPT ![r] =
                    Append(@, [method |-> "eth_getTransactionReceipt", params |-> <<hdr.s>>])]
            /\ pc' = [pc EXCEPT ![r] = "receipt"]
            /\ UNCHANGED response
    /\ UNCHANGED <<streamed, serverWallet, ledger, receiptReply, txReply, isValid, body, streamTextCalls>>

\* POST called for a request from any caller, with any x-payment header
POST(r) == \E hdr \in PaymentHeaders : POSTWith(r, hdr)

\* `if (!isValid)` is missing: whatever verifyPayment returned, go on
afterVerify_ignoreResult(r, outcome) ==
    /\ isValid' = [isValid EXCEPT ![r] = outcome]
    /\ pc' = [pc EXCEPT ![r] = "body"]
    /\ UNCHANGED response

\* the result of the verification is kept in one place for all requests
afterVerify_sharedResult(r, outcome) ==
    /\ isValid' = [q \in Reqs |-> outcome]
    /\ IF outcome = "true"
       THEN pc' = [pc EXCEPT ![r] = "body"] /\ UNCHANGED response
       ELSE /\ pc' = [pc EXCEPT ![r] = "done"]
            /\ response' = [response EXCEPT ![r] =
                    IF outcome = "false" THEN RejectedResponse
                    ELSE InternalErrorResponse("fetch failed")]

\* a rejected proof is verified once more instead of being answered
afterVerify_retry(r, outcome) ==
    /\ isValid' = [isValid EXCEPT ![r] = outcome]
    /\ IF outcome = "true"
       THEN /\ pc' = [pc EXCEPT ![r] = "body"]
            /\ UNCHANGED response
       ELSE /\ pc' = [pc EXCEPT ![r] = "receipt"]
            /\ UNCHANGED response

\* POST once verifyPayment has settled: the rejection, or on to request.json();
\* an exception out of verifyPayment would land in the catch of POST
afterVerify(r, outcome) ==
    /\ isValid' = [isValid EXCEPT ![r] = outcome]
    /\ IF outcome = "true"
       THEN /\ pc' = [pc EXCEPT ![r] = "body"]
            /\ UNCHANGED response
       ELSE /\ pc' = [pc EXCEPT ![r] = "done"]
            /\ response' = [response EXCEPT ![r] =
                    IF outcome = "false" THEN RejectedResponse
                    ELSE InternalErrorResponse("fetch failed")]

\* the answers the endpoint can give to a call: it fails, it answers with an
\* error document (no result field), or it reports what the node holds
RpcReplies(stored) == {RpcThrow, RpcData(JsUndefined), RpcData(stored)}

\* what the node holds for a hash; nothing for a hash it has never seen
held(txHash) == IF txHash \in DOMAIN ledger THEN ledger[txHash] ELSE UnknownTx

\* a receipt the node does not hold yet is asked for once more
ReceiptFetched_retryOnNull(r) ==
    /\ pc[r] = "receipt"
    /\ \E reply \in RpcReplies(held(paymentData[r].s).receipt) :
        /\ receiptReply' = [receiptReply EXCEPT ![r] = reply]
        /\ LET outcome == verifyPayment_catch(checkReceipt(reply))
           IN  IF outcome = "next"
               THEN /\ oracleCalls' = [oracleCalls EXCEPT ![r] =
                            Append(@, [method |-> "eth_getTransactionByHash",
                                       params |-> <<paymentData[r].s>>])]
                    /\ pc' = [pc EXCEPT ![r] = "transaction"]
                    /\ UNCHANGED <<isValid, response>>
               ELSE IF reply = RpcData(JsNull) /\ Len(oracleCalls[r]) < 2
               THEN /\ oracleCalls' = [oracleCalls EXCEPT ![r] =
                            Append(@, [method |-> "eth_getTransactionReceipt",
                                       params |-> <<paymentData[r].s>>])]
                    /\ UNCHANGED <<pc, isValid, response>>
               ELSE /\ afterVerify(r, outcome)
                    /\ UNCHANGED oracleCalls
    /\ UNCHANGED <<streamed, serverWallet, ledger, paymentData, txReply, body, streamTextCalls>>

\* the first fetch of verifyPayment settles
ReceiptFetched(r) ==
    /\ pc[r] = "receipt"
    /\ \E reply \in RpcReplies(held(paymentData[r].s).receipt) :
        /\ receiptReply' = [receiptReply EXCEPT ![r] = reply]
        /\ LET outcome == verifyPayment_catch(checkReceipt(reply))
           IN  IF outcome = "next"
               THEN /\ oracleCalls' = [oracleCalls EXCEPT ![r] =
                            Append(@, [method |-> "eth_getTransactionByHash",
                                       params |-> <<paymentData[r].s>>])]
                    /\ pc' = [pc EXCEPT ![r] = "transaction"]
                    /\ UNCHANGED <<isValid, response>>
               ELSE /\ afterVerify(r, outcome)
                    /\ UNCHANGED oracleCalls
    /\ UNCHANGED <<streamed, serverWallet, ledger, paymentData, txReply, body, streamTextCalls>>

\* a hash that has admitted another request is refused
TransactionFetched_singleUse(r) ==
    /\ pc[r] = "transaction"
    /\ \E reply \in RpcReplies(held(paymentData[r].s).tx) :
        /\ txReply' = [txReply EXCEPT ![r] = reply]
        /\ afterVerify(r, IF \E q \in Reqs \ {r} : paymentData[q] = paymentData[r] /\ isValid[q] = "true"
                          THEN "false"
                          ELSE verifyPayment_catch(checkTransaction(reply, serverWallet)))
    /\ UNCHANGED <<streamed, serverWallet, ledger, paymentData, receiptReply, oracleCalls, body,
                   streamTextCalls>>

\* an accepted transaction is struck from what the node reports
TransactionFetched_markSpent(r) ==
    /\ pc[r] = "transaction"
    /\ \E reply \in RpcReplies(held(paymentData[r].s).tx) :
        /\ txReply' = [txReply EXCEPT ![r] = reply]
        /\ afterVerify(r, verifyPayment_catch(checkTransaction(reply, serverWallet)))
        /\ ledger' = IF verifyPayment_catch(checkTransaction(reply, serverWallet)) = "true"
                     THEN [ledger EXCEPT ![paymentData[r].s] = UnknownTx]
                     ELSE ledger
    /\ UNCHANGED <<streamed, serverWallet, paymentData, receiptReply, oracleCalls, body,
                   streamTextCalls>>

\* the second fetch is given up after a while and the request refused
TransactionFetched_timeout(r) ==
    /\ pc[r] = "transaction"
    /\ \/ \E reply \in RpcReplies(held(paymentData[r].s).tx) :
            /\ txReply' = [txReply EXCEPT ![r] = reply]
            /\ afterVerify(r, verifyPayment_catch(checkTransaction(reply, serverWallet)))
       \/ /\ UNCHANGED txReply
          /\ afterVerify(r, "false")
    /\ UNCHANGED <<streamed, serverWallet, ledger, paymentData, receiptReply, oracleCalls, body,
                   streamTextCalls>>

\* the second fetch of verifyPayment settles
TransactionFetched(r) ==
    /\ pc[r] = "transaction"
    /\ \E reply \in RpcReplies(held(paymentData[r].s).tx) :
        /\ txReply' = [txReply EXCEPT ![r] = reply]
        /\ afterVerify(r, verifyPayment_catch(checkTransaction(reply, serverWallet)))
    /\ UNCHANGED <<streamed, serverWallet, ledger, paymentData, receiptReply, oracleCalls, body,
                   streamTextCalls>>

\* request.json() settles: the body is read, streamText is called and the
\* response is returned; streamText itself may throw
BodyParsedWith(r, b, streamTextThrows) ==
    /\ pc[r] = "body"
    /\ body' = [body EXCEPT ![r] = b]
    /\ IF bodyError(b) # ""
       THEN /\ response' = [response EXCEPT ![r] = InternalErrorResponse(bodyError(b))]
            /\ UNCHANGED streamTextCalls
       ELSE /\ streamTextCalls' = [streamTextCalls EXCEPT ![r] =
                    Append(@, [model |-> getGoogleModel(b.model),
                               messages |-> coreMessages(messagesOrDefault(b).items)])]
            /\ response' = [response EXCEPT ![r] =
                    IF streamTextThrows THEN InternalErrorResponse("streamText failed")
                    ELSE AdmittedResponse(paymentData[r])]
    /\ pc' = [pc EXCEPT ![r] = "done"]
    /\ UNCHANGED <<streamed, serverWallet, ledger, paymentData, receiptReply, txReply, isValid,
                   oracleCalls>>

\* the body of a request from any caller
BodyParsed(r) ==
    \E b \in RequestBodies, streamTextThrows \in BOOLEAN : BodyParsedWith(r, b, streamTextThrows)

\* the text the model produces, piece by piece
TextChunks == {<<"o","k">>, <<"0",":","7">>}

Chunk(text) == [k |-> "chunk", text |-> text]
EndOfStream == [k |-> "end"]

\* the body of the returned response is still being sent
Streaming(r) ==
    /\ pc[r] = "done"
    /\ response[r].status = 200
    /\ \A i \in 1..Len(streamed[r]) : streamed[r][i] # EndOfStream

\* a part of the data stream protocol: 0:"text" and a line feed
DataStreamPart(text) == <<"0",":","\"">> \o QuoteJSONString(text) \o <<"\"","\n">>

\* what a piece of text is sent as: as it is by toTextStreamResponse, as a
\* text part by toDataStreamResponse
encoded(r, text) ==
    IF response[r].body.stream = "data" THEN DataStreamPart(text) ELSE text

\* after POST has returned the response, the next piece of the completion
\* is sent to the caller
StreamChunk(r) ==
    /\ Streaming(r)
    /\ Len(streamed[r]) < MaxChunks
    /\ \E text \in TextChunks :
        streamed' = [streamed EXCEPT ![r] = Append(@, Chunk(encoded(r, text)))]
    /\ UNCHANGED <<serverWallet, ledger, pc, paymentData, receiptReply, txReply, isValid,
                   oracleCalls, body, streamTextCalls, response>>

\* the completion ends and the body is closed
StreamClosed(r) ==
    /\ Streaming(r)
    /\ streamed' = [streamed EXCEPT ![r] = Append(@, EndOfStream)]
    /\ UNCHANGED <<serverWallet, ledger, pc, paymentData, receiptReply, txReply, isValid,
                   oracleCalls, body, streamTextCalls, response>>

\* the endpoint alone, called by arbitrary callers, up to the response that
\* POST returns
Next ==
    /\ \E r \in Reqs :
        \/ POST(r)
        \/ ReceiptFetched(r)
        \/ TransactionFetched(r)
        \/ BodyParsed(r)
    /\ UNCHANGED <<clientVars, streamed>>

Spec == Init /\ [][Next]_vars

\* ------------------------------------------------------------- the client
\* what the user types: a question, or blanks only
InputTexts == {<<"h","i">>, <<" "," ">>}

\* String.prototype.trim
RECURSIVE trim(_)
trim(s) ==
    IF s = <<>> THEN s
    ELSE IF Head(s) = " " THEN trim(Tail(s))
    ELSE IF s[Len(s)] = " " THEN trim(SubSeq(s, 1, Len(s) - 1))
    ELSE s

\* String.prototype.includes
includes(s, pattern) ==
    \E i \in 1..(Len(s) - Len(pattern) + 1) : SubSeq(s, i, i + Len(pattern) - 1) = pattern

\* the message of the error a wallet raises when the user declines to sign:
\* MetaMask's, and the one EIP-1193 prescribes for code 4001
MetaMaskDenied ==
    <<"M","e","t","a","M","a","s","k"," ","T","x"," ","S","i","g","n","a","t","u","r","e",
      ":"," ","U","s","e","r"," ","d","e","n","i","e","d"," ","t","r","a","n","s","a","c",
      "t","i","o","n"," ","s","i","g","n","a","t","u","r","e",".">>
UserRejectedRequest ==
    <<"U","s","e","r"," ","r","e","j","e","c","t","e","d"," ","t","h","e"," ","r","e","q",
      "u","e","s","t",".">>
\* the message of a transfer that fails for another reason
InsufficientFunds ==
    <<"i","n","s","u","f","f","i","c","i","e","n","t"," ","f","u","n","d","s"," ","f","o",
      "r"," ","g","a","s"," ","*"," ","p","r","i","c","e"," ","+"," ","v","a","l","u","e">>
RejectionMessages == {MetaMaskDenied, UserRejectedRequest}
TransferErrors == RejectionMessages \cup {InsufficientFunds}

UserDenied ==
    <<"U","s","e","r"," ","d","e","n","i","e","d">>
Rejected ==
    <<"r","e","j","e","c","t","e","d">>
NoPaymentOptions ==
    <<"N","o"," ","p","a","y","m","e","n","t"," ","o","p","t","i","o","n","s"," ","a","v",
      "a","i","l","a","b","l","e">>
ChatRequestFailed ==
    <<"C","h","a","t"," ","r","e","q","u","e","s","t"," ","f","a","i","l","e","d",":"," ">>
PaymentVerificationFailed ==
    <<"P","a","y","m","e","n","t"," ","v","e","r","i","f","i","c","a","t","i","o","n"," ",
      "f","a","i","l","e","d">>

\* useState('gemini-2.5-flash')
selectedModel == "gemini-2.5-flash"

\* the price the pages pay, as they write it
ClientPrice == <<"0",".","0","0","1">>

\* the address paymentFetch pays when NEXT_PUBLIC_SERVER_WALLET_ADDRESS is unset
PlaceholderAddress ==
    <<"0","x","Y","o","u","r","R","e","c","e","i","v","i","n","g","W","a","l","l","e","t","A","d","d","r","e","s","s">>

UserMessage(text) == [t |-> "object", role |-> "user", content |-> text]
AssistantMessage(text) == [t |-> "object", role |-> "assistant", content |-> text]
\* { role: 'user', parts: [{ type: 'text', text }] }
PartsMessage(text) == [t |-> "object", role |-> "user", parts |-> text]
ChatBody(items) ==
    [t |-> "object", messages |-> [t |-> "array", items |-> items], model |-> selectedModel]

Request(hdr, b, n) == [t |-> "request", xPayment |-> hdr, body |-> b, submission |-> n]

\* the next request of the run, and whether k more requests can be sent
NextSlot == Cardinality({r \in Reqs : sent[r] # NoRequest}) + 1
SlotsFree(k) == NextSlot + k - 1 <= NumReqs

Toast(type, message) == [type |-> type, message |-> message]

\* Response.ok
ok(resp) == resp.status \in 200..299

\* paymentInfo.accepts || []
acceptsOf(paymentInfo) ==
    IF "accepts" \in DOMAIN paymentInfo THEN paymentInfo.accepts ELSE <<>>

\* `Chat request failed: ${status} - ${errorText}`: the status and the text
\* of the body are kept as one element each
chatFailedMessage(resp) ==
    ChatRequestFailed \o <<NumberToString(resp.status)>> \o <<" ","-"," ">> \o <<resp.body.error>>

ClientInit ==
    /\ serverWallet \in ServerWallets
    /\ ledger = [h \in TxHashes |-> UnknownTx]
    /\ pc = [r \in Reqs |-> "idle"]
    /\ paymentData = [r \in Reqs |-> JsNull]
    /\ receiptReply = [r \in Reqs |-> NoReply]
    /\ txReply = [r \in Reqs |-> NoReply]
    /\ isValid = [r \in Reqs |-> "pending"]
    /\ oracleCalls = [r \in Reqs |-> <<>>]
    /\ body = [r \in Reqs |-> NoBody]
    /\ streamTextCalls = [r \in Reqs |-> <<>>]
    /\ response = [r \in Reqs |-> NoResponse]
    /\ streamed = [r \in Reqs |-> <<>>]
    /\ page \in {"part_002", "route.ts"}
    /\ endpoint \in {"part_000", "route.ts"}
    /\ connected = FALSE
    /\ publicWallet \in (IF page = "route.ts" THEN {JsUndefined, Str(AddrAb)} ELSE {JsUndefined})
    /\ ClientMounted

\* connectWallet succeeded: web3 and account are set
connectWallet ==
    /\ ~connected
    /\ connected' = TRUE
    /\ UNCHANGED <<consumed, serverVars, page, endpoint, publicWallet, cpc, awaiting, sent, submission,
                   currentInput, inputValue, isSubmitting, paymentStatus, lastTxHash, storage,
                   messages, toasts, transfers, thrown>>

\* the user types into the input box, which is disabled without an account
\* and while a submission runs
TypeInput ==
    /\ connected
    /\ cpc = "ready"
    /\ \E text \in InputTexts : text # inputValue /\ inputValue' = text
    /\ UNCHANGED <<consumed, serverVars, page, endpoint, connected, publicWallet, cpc, awaiting, sent,
                   submission, currentInput, isSubmitting, paymentStatus, lastTxHash, storage,
                   messages, toasts, transfers, thrown>>

\* what the node holds for a transfer once it is mined: addresses in lower
\* case, the value as a hex quantity
MinedTransfer(transfer) ==
    [receipt |-> [t |-> "object", status |-> Str(StatusSuccess)],
     tx |-> [t |-> "object",
             to |-> IF transfer.to.t = "string" THEN Str(toLowerCase(transfer.to.s)) ELSE JsNull,
             value |-> Str(numberToHex(BigInt(transfer.value)))]]

\* the hashes the next mined transfer can get
FreshHashes == {h \in {HashKnown} : ledger[h] = UnknownTx}

Transfer(to, value) ==
    [to |-> to, value |-> value, state |-> "prompt", hash |-> JsNull, submission |-> submission]

\* only MetaMask's wording is recognized
isCancellation_userDeniedOnly(errorMessage) == includes(errorMessage, UserDenied)

\* errorMessage.includes('User denied') || errorMessage.includes('rejected')
isCancellation(errorMessage) == includes(errorMessage, UserDenied) \/ includes(errorMessage, Rejected)

\* the catch of handleFormSubmit, entered with the toasts shown so far
catchError(errorMessage, shown) ==
    /\ inputValue' = currentInput
    /\ isSubmitting' = FALSE
    /\ toasts' = Append(shown, IF isCancellation(errorMessage)
                               THEN Toast("warning", "Transaction Cancelled")
                               ELSE Toast("error", "Error"))
    /\ cpc' = "ready"
    /\ awaiting' = 0

\* the stored hash is attached and left in the store
sendChat_keepStored(stored) ==
    /\ messages' = Append(messages, UserMessage(currentInput))
    /\ storage' = stored
    /\ sent' = [sent EXCEPT ![NextSlot] =
                    Request(IF Truthy(stored) THEN stored ELSE JsNull,
                            ChatBody(Append(messages, UserMessage(currentInput))),
                            submission)]
    /\ awaiting' = NextSlot
    /\ cpc' = "chat"

\* handleFormSubmit from the user message to the fetch of the chat request;
\* stored is what localStorage holds under x402_payment_hash at that point
sendChat(stored) ==
    /\ messages' = Append(messages, UserMessage(currentInput))
    /\ storage' = IF Truthy(stored) THEN JsNull ELSE stored
    /\ sent' = [sent EXCEPT ![NextSlot] =
                    Request(IF Truthy(stored) THEN stored ELSE JsNull,
                            ChatBody(Append(messages, UserMessage(currentInput))),
                            submission)]
    /\ awaiting' = NextSlot
    /\ cpc' = "chat"

\* handleFormSubmit up to the preflight fetch; it returns at once on a blank
\* input, and the form cannot be submitted without an account
handleFormSubmit ==
    /\ page = "part_002"
    /\ cpc = "ready"
    /\ connected
    /\ trim(inputValue) # <<>>
    /\ SlotsFree(2)
    /\ submission' = submission + 1
    /\ isSubmitting' = TRUE
    /\ currentInput' = inputValue
    /\ inputValue' = <<>>
    /\ sent' = [sent EXCEPT ![NextSlot] =
                    Request(JsNull, ChatBody(<<PartsMessage(inputValue)>>), submission + 1)]
    /\ awaiting' = NextSlot
    /\ cpc' = "preflight"
    /\ UNCHANGED <<consumed, serverVars, page, endpoint, connected, publicWallet, paymentStatus,
                   lastTxHash, storage, messages, toasts, transfers, thrown>>

\* the preflight response arrives: on 402 the payment is started, otherwise
\* the chat request is sent
PreflightResponded ==
    /\ page = "part_002"
    /\ cpc = "preflight"
    /\ pc[awaiting] = "done"
    /\ LET resp == response[awaiting]
           accepts == acceptsOf(resp.body)
           shown == Append(toasts, Toast("info", "Payment Required"))
       IN  IF resp.status = 402
           THEN /\ paymentStatus' = "pending"
                /\ IF accepts = <<>>
                   THEN /\ catchError(NoPaymentOptions, shown)
                        /\ UNCHANGED <<transfers, messages, storage, sent>>
                   ELSE /\ toasts' = Append(shown, Toast("warning", "Confirm in MetaMask"))
                        /\ transfers' = Append(transfers,
                                               Transfer(accepts[1].payTo, toWei(ClientPrice)))
                        /\ cpc' = "wallet"
                        /\ awaiting' = 0
                        /\ UNCHANGED <<inputValue, isSubmitting, messages, storage, sent>>
           ELSE /\ sendChat(storage)
                /\ UNCHANGED <<paymentStatus, toasts, transfers, inputValue, isSubmitting>>
    /\ UNCHANGED <<consumed, serverVars, page, endpoint, connected, publicWallet, submission,
                   currentInput, lastTxHash, thrown>>

\* the promise around sendTransaction settles: the wallet reports an error,
\* or the transfer is mined and its receipt arrives
TransactionSettled ==
    /\ page = "part_002"
    /\ cpc = "wallet"
    /\ LET k == Len(transfers)
       IN  \/ \E m \in TransferErrors :
                /\ transfers' = [transfers EXCEPT
                        ![k].state = IF m \in RejectionMessages THEN "rejected" ELSE "failed"]
                /\ catchError(m, toasts)
                /\ UNCHANGED <<ledger, lastTxHash, paymentStatus, messages, storage, sent>>
           \/ \E h \in FreshHashes :
                /\ ledger' = [ledger EXCEPT ![h] = MinedTransfer(transfers[k])]
                /\ transfers' = [transfers EXCEPT ![k].state = "confirmed", ![k].hash = Str(h)]
                /\ lastTxHash' = Str(h)
                /\ paymentStatus' = "success"
                /\ toasts' = toasts \o <<Toast("info", "Transaction Submitted"),
                                         Toast("success", "Payment Confirmed!")>>
                /\ sendChat(Str(h))
                /\ UNCHANGED <<inputValue, isSubmitting>>
    /\ UNCHANGED <<consumed, streamed, serverWallet, pc, paymentData, receiptReply, txReply, isValid, oracleCalls,
                   body, streamTextCalls, response, page, endpoint, connected, publicWallet,
                   submission, currentInput, thrown>>

\* a chat request answered 402 starts the payment again
ChatResponded_payAgain ==
    /\ page = "part_002"
    /\ cpc = "chat"
    /\ pc[awaiting] = "done"
    /\ LET resp == response[awaiting]
       IN  IF resp.status = 402 /\ acceptsOf(resp.body) # <<>>
           THEN /\ transfers' = Append(transfers,
                        Transfer(acceptsOf(resp.body)[1].payTo, toWei(ClientPrice)))
                /\ cpc' = "wallet"
                /\ awaiting' = 0
                /\ UNCHANGED <<messages, inputValue, isSubmitting, toasts>>
           ELSE IF ~ok(resp)
           THEN /\ catchError(chatFailedMessage(resp), toasts)
                /\ UNCHANGED <<messages, transfers>>
           ELSE /\ messages' = Append(messages, AssistantMessage(<<>>))
                /\ cpc' = "reading"
                /\ UNCHANGED <<awaiting, inputValue, isSubmitting, toasts, transfers>>
    /\ UNCHANGED <<consumed, serverVars, page, endpoint, connected, publicWallet, sent, submission,
                   currentInput, paymentStatus, lastTxHash, storage, thrown>>

\* the response to the chat request arrives
ChatResponded ==
    /\ page = "part_002"
    /\ cpc = "chat"
    /\ pc[awaiting] = "done"
    /\ LET resp == response[awaiting]
       IN  IF ~ok(resp)
           THEN /\ catchError(chatFailedMessage(resp), toasts)
                /\ UNCHANGED messages
           ELSE /\ messages' = Append(messages, AssistantMessage(<<>>))
                /\ cpc' = "reading"
                /\ UNCHANGED <<awaiting, inputValue, isSubmitting, toasts>>
    /\ UNCHANGED <<consumed, serverVars, page, endpoint, connected, publicWallet, sent, submission,
                   currentInput, paymentStatus, lastTxHash, storage, transfers, thrown>>

\* chunk.split('\n')
RECURSIVE splitFrom(_, _)
splitFrom(s, line) ==
    IF s = <<>> THEN <<line>>
    ELSE IF Head(s) = "\n" THEN <<line>> \o splitFrom(Tail(s), <<>>)
    ELSE splitFrom(Tail(s), Append(line, Head(s)))

split(chunk) == splitFrom(chunk, <<>>)

\* line.startsWith('0:')
startsWithTextPart(line) == Len(line) >= 2 /\ line[1] = "0" /\ line[2] = ":"

\* the text between two quotes is the body of a JSON string: no bare quote
\* and no backslash without a character after it
RECURSIVE IsJSONStringBody(_)
IsJSONStringBody(s) ==
    IF s = <<>> THEN TRUE
    ELSE IF Head(s) = "\"" THEN FALSE
    ELSE IF Head(s) = "\\" THEN Len(s) >= 2 /\ IsJSONStringBody(SubSeq(s, 3, Len(s)))
    ELSE IsJSONStringBody(Tail(s))

\* what a line adds to fullContent: JSON.parse(line.slice(2)) when that is a
\* JSON string; for the other texts the model sends (a number in its own
\* decimal form, or no JSON at all) the parsed value and the raw text of the
\* catch branch append the same characters, line.slice(2)
textContent(line) ==
    LET rest == SubSeq(line, 3, Len(line))
    IN  IF /\ Len(rest) >= 2
           /\ rest[1] = "\""
           /\ rest[Len(rest)] = "\""
           /\ IsJSONStringBody(SubSeq(rest, 2, Len(rest) - 1))
        THEN UnquoteJSONString(SubSeq(rest, 2, Len(rest) - 1))
        ELSE rest

\* the for loop over the lines of a chunk: lines that do not start with 0:
\* are skipped
RECURSIVE parseLines(_, _)
parseLines(fullContent, lines) ==
    IF lines = <<>> THEN fullContent
    ELSE parseLines(IF startsWithTextPart(Head(lines))
                    THEN fullContent \o textContent(Head(lines))
                    ELSE fullContent,
                    Tail(lines))

\* the next item of the body the page is reading, when one has arrived
NextRead == streamed[awaiting][consumed + 1]

\* reader.read() returns a chunk: its text parts are added to the assistant
\* message
ChunkRead ==
    /\ page = "part_002"
    /\ cpc = "reading"
    /\ consumed < Len(streamed[awaiting])
    /\ NextRead # EndOfStream
    /\ consumed' = consumed + 1
    /\ messages' = [messages EXCEPT ![Len(messages)].content =
                        parseLines(@, split(NextRead.text))]
    /\ UNCHANGED <<serverVars, page, endpoint, connected, publicWallet, cpc, awaiting, sent,
                   submission, currentInput, inputValue, isSubmitting, paymentStatus,
                   lastTxHash, storage, toasts, transfers, thrown>>

\* reader.read() returns done: the stream of the response has ended
StreamEnded ==
    /\ page = "part_002"
    /\ cpc = "reading"
    /\ consumed < Len(streamed[awaiting])
    /\ NextRead = EndOfStream
    /\ consumed' = 0
    /\ toasts' = Append(toasts, Toast("success", "Response Received"))
    /\ isSubmitting' = FALSE
    /\ cpc' = "ready"
    /\ awaiting' = 0
    /\ UNCHANGED <<serverVars, page, endpoint, connected, publicWallet, sent, submission,
                   currentInput, inputValue, paymentStatus, lastTxHash, storage, messages,
                   transfers, thrown>>

\* useChat submits through paymentFetch: the user message is added, the
\* input is cleared, and paymentFetch runs up to its first fetch; the form
\* cannot be submitted without an account or with a blank input
paymentFetch ==
    /\ page = "route.ts"
    /\ cpc = "ready"
    /\ connected
    /\ trim(inputValue) # <<>>
    /\ SlotsFree(2)
    /\ submission' = submission + 1
    /\ isSubmitting' = TRUE
    /\ currentInput' = inputValue
    /\ inputValue' = <<>>
    /\ messages' = Append(messages, UserMessage(inputValue))
    /\ paymentStatus' = "idle"
    /\ thrown' = JsNull
    /\ sent' = [sent EXCEPT ![NextSlot] =
                    Request(JsNull, ChatBody(Append(messages, UserMessage(inputValue))),
                            submission + 1)]
    /\ awaiting' = NextSlot
    /\ cpc' = "first"
    /\ UNCHANGED <<consumed, serverVars, page, endpoint, connected, publicWallet, lastTxHash, storage,
                   toasts, transfers>>

\* paymentFetch returns the response to useChat, or throws
returned(resp) ==
    /\ messages' = IF ok(resp) THEN Append(messages, AssistantMessage(<<>>)) ELSE messages
    /\ isSubmitting' = FALSE
    /\ cpc' = "ready"
    /\ awaiting' = 0

\* the first response arrives: anything but 402 is returned, on 402 the
\* transfer is started
PaymentFetchResponded ==
    /\ page = "route.ts"
    /\ cpc = "first"
    /\ pc[awaiting] = "done"
    /\ IF response[awaiting].status = 402
       THEN /\ paymentStatus' = "pending"
            /\ transfers' = Append(transfers,
                    Transfer(IF Truthy(publicWallet) THEN publicWallet
                             ELSE Str(PlaceholderAddress),
                             toWei(ClientPrice)))
            /\ cpc' = "wallet"
            /\ awaiting' = 0
            /\ UNCHANGED <<messages, isSubmitting>>
       ELSE /\ returned(response[awaiting])
            /\ UNCHANGED <<paymentStatus, transfers>>
    /\ UNCHANGED <<consumed, serverVars, page, endpoint, connected, publicWallet, sent, submission,
                   currentInput, inputValue, lastTxHash, storage, toasts, thrown>>

\* the promise around sendTransaction settles in paymentFetch: an error goes
\* to the catch, a receipt leads to the retry with the hash as x-payment
PaymentFetchTransactionSettled ==
    /\ page = "route.ts"
    /\ cpc = "wallet"
    /\ LET k == Len(transfers)
       IN  \/ \E m \in TransferErrors :
                /\ transfers' = [transfers EXCEPT
                        ![k].state = IF m \in RejectionMessages THEN "rejected" ELSE "failed"]
                /\ paymentStatus' = "error"
                /\ thrown' = Str(m)
                /\ isSubmitting' = FALSE
                /\ cpc' = "ready"
                /\ UNCHANGED <<ledger, lastTxHash, sent, awaiting>>
           \/ \E h \in FreshHashes :
                /\ ledger' = [ledger EXCEPT ![h] = MinedTransfer(transfers[k])]
                /\ transfers' = [transfers EXCEPT ![k].state = "confirmed", ![k].hash = Str(h)]
                /\ lastTxHash' = Str(h)
                /\ sent' = [sent EXCEPT ![NextSlot] =
                                Request(Str(h), ChatBody(messages), submission)]
                /\ awaiting' = NextSlot
                /\ cpc' = "retry"
                /\ UNCHANGED <<paymentStatus, thrown, isSubmitting>>
    /\ UNCHANGED <<consumed, streamed, serverWallet, pc, paymentData, receiptReply, txReply, isValid, oracleCalls,
                   body, streamTextCalls, response, page, endpoint, connected, publicWallet,
                   submission, currentInput, inputValue, storage, messages, toasts>>

\* the response to the retry arrives
RetryResponded ==
    /\ page = "route.ts"
    /\ cpc = "retry"
    /\ pc[awaiting] = "done"
    /\ IF ok(response[awaiting])
       THEN /\ paymentStatus' = "success"
            /\ returned(response[awaiting])
            /\ UNCHANGED thrown
       ELSE /\ paymentStatus' = "error"
            /\ thrown' = Str(PaymentVerificationFailed)
            /\ isSubmitting' = FALSE
            /\ cpc' = "ready"
            /\ awaiting' = 0
            /\ UNCHANGED messages
    /\ UNCHANGED <<consumed, serverVars, page, endpoint, connected, publicWallet, sent, submission,
                   currentInput, inputValue, lastTxHash, storage, toasts, transfers>>

\* -------------------------------------------------- the endpoint of route.ts
\* what settlePayment of thirdweb/x402 can give: it throws, it settles
\* (status 200), or it asks for payment with a body of its own making
SettleBodies(wallet) ==
    {[x402Version |-> 1, error |-> "Payment required", accepts |-> <<PaymentRequirement(wallet)>>],
     [x402Version |-> 1, error |-> "Payment required", accepts |-> <<>>],
     [error |-> "Payment required"]}
SettleResults(wallet) ==
    {[k |-> "throw"], [k |-> "result", status |-> 200]} \cup
    {[k |-> "result", status |-> 402, responseBody |-> b] : b \in SettleBodies(wallet)}

\* JSON.stringify(paymentResult.paymentReceipt), whose content is thirdweb's
RoutePaymentReceipt == <<"{","}">>

\* convertToCoreMessages on messages with a content or with parts
convertToCoreMessages(items) ==
    [i \in 1..Len(items) |->
        [role |-> items[i].role,
         content |-> IF "content" \in DOMAIN items[i] THEN items[i].content ELSE items[i].parts]]

RouteInternalError == [status |-> 500, body |-> [error |-> "Internal server error"],
                       headers |-> JsonHeaders]

\* POST of route.ts for a request the page has sent: settlePayment, then the
\* completion; every exception ends in the catch
RoutePOST(r) ==
    /\ endpoint = "route.ts"
    /\ pc[r] = "idle"
    /\ paymentData' = [paymentData EXCEPT ![r] = sent[r].xPayment]
    /\ pc' = [pc EXCEPT ![r] = "done"]
    /\ \E paymentResult \in SettleResults(serverWallet), streamTextThrows \in BOOLEAN :
        IF paymentResult.k = "throw"
        THEN /\ response' = [response EXCEPT ![r] = RouteInternalError]
             /\ UNCHANGED <<body, streamTextCalls>>
        ELSE IF paymentResult.status # 200
        THEN /\ response' = [response EXCEPT ![r] =
                     [status |-> paymentResult.status, body |-> paymentResult.responseBody,
                      headers |-> JsonHeaders]]
             /\ UNCHANGED <<body, streamTextCalls>>
        ELSE /\ body' = [body EXCEPT ![r] = sent[r].body]
             /\ streamTextCalls' = [streamTextCalls EXCEPT ![r] =
                     Append(@, [model |-> getGoogleModel(sent[r].body.model),
                                messages |-> convertToCoreMessages(sent[r].body.messages.items)])]
             /\ response' = [response EXCEPT ![r] =
                     IF streamTextThrows THEN RouteInternalError
                     ELSE [status |-> 200, body |-> [stream |-> "data"],
                           headers |-> [ContentType |-> "text/plain; charset=utf-8",
                                        XPaymentReceipt |-> RoutePaymentReceipt]]]
    /\ UNCHANGED <<streamed, serverWallet, ledger, receiptReply, txReply, isValid, oracleCalls>>

\* POST of part_000 for a request the page has sent
ServePOST(r) == endpoint = "part_000" /\ POSTWith(r, sent[r].xPayment)
ServeBody(r) == \E streamTextThrows \in BOOLEAN : BodyParsedWith(r, sent[r].body, streamTextThrows)

\* the page, its wallet and the endpoint that serves it
ClientNext ==
    \/ connectWallet
    \/ TypeInput
    \/ handleFormSubmit
    \/ PreflightResponded
    \/ TransactionSettled
    \/ ChatResponded
    \/ ChunkRead
    \/ StreamEnded
    \/ paymentFetch
    \/ PaymentFetchResponded
    \/ PaymentFetchTransactionSettled
    \/ RetryResponded
    \/ /\ \E r \in Reqs :
            /\ sent[r] # NoRequest
            /\ \/ ServePOST(r)
               \/ ReceiptFetched(r)
               \/ TransactionFetched(r)
               \/ ServeBody(r)
               \/ RoutePOST(r)
               \/ StreamChunk(r)
               \/ StreamClosed(r)
       /\ UNCHANGED clientVars

ClientSpec == ClientInit /\ [][ClientNext]_vars

\* a step of the endpoint for request r
Served(r) ==
    /\ sent[r] # NoRequest
    /\ \/ ServePOST(r)
       \/ ReceiptFetched(r)
       \/ TransactionFetched(r)
       \/ ServeBody(r)
       \/ RoutePOST(r)
    /\ UNCHANGED clientVars

\* the runs in which the endpoint goes on with every request it has got:
\* the server runs, and every call it awaits returns or fails
FairClientSpec == ClientSpec /\ \A r \in Reqs : WF_vars(Served(r))

\* ================================================================ properties
\* What the properties say about the inputs is stated here on its own, not
\* through the operators that model the code.

\* the two characters are the same letter in either case, or the same character
SameLetter(c, d) ==
    \/ c = d
    \/ \E i \in 1..Len(UpperChars) : {c, d} = {UpperChars[i], LowerChars[i]}

\* equal ignoring letter case
EqualIgnoringCase(a, b) ==
    /\ Len(a) = Len(b)
    /\ \A i \in 1..Len(a) : SameLetter(a[i], b[i])

\* the value texts that denote at least 10^15 base units
PayingValues == {Str(ValExact), Str(ValAbove), Str(ValHuge)}

\* the oracle returned a receipt whose status is the success sentinel
ReceiptSucceeded(reply) ==
    /\ reply.k = "data"
    /\ reply.result.t = "object"
    /\ reply.result.status = Str(<<"0","x","1">>)

\* the oracle returned a transaction
TransactionReturned(reply) == reply.k = "data" /\ reply.result.t = "object"

\* ... sent to the expected recipient, ignoring letter case
RecipientMatches(reply, expected) ==
    /\ TransactionReturned(reply)
    /\ reply.result.to.t = "string"
    /\ EqualIgnoringCase(reply.result.to.s, expected.s)

Decided(r) == isValid[r] \in {"true", "false"}
HasProof(r) == paymentData[r].t = "string" /\ paymentData[r].s # <<>>
Configured == serverWallet.t = "string" /\ serverWallet.s # <<>>

\* C1: streamText is called for a request only if the request carried a proof
\* header and verifyPayment returned true for it; a request answered with the
\* configuration error, the challenge or the rejection has no streamText call.
C1_CompletionOnlyAfterVerifiedPayment ==
    \A r \in Reqs :
        /\ streamTextCalls[r] # <<>> => (HasProof(r) /\ Configured /\ isValid[r] = "true")
        /\ (response[r].status = 402 \/ ~Configured \/ ~HasProof(r) \/ isValid[r] = "false")
              => streamTextCalls[r] = <<>>

C1_Witness ==
    \E r \in Reqs : pc[r] = "done" /\ Len(streamTextCalls[r]) = 1 /\ response[r].status = 200

\* C2: verifyPayment returns true exactly when the receipt returned has the
\* success status, the transaction returned goes to the expected recipient
\* (letter case ignored) and its value is at least 10^15; otherwise it
\* returns false, and it always returns one of the two.
C2_VerifyPaymentIff ==
    \A r \in Reqs :
        /\ (pc[r] \in {"body", "done"} /\ Configured /\ HasProof(r)) => Decided(r)
        /\ Decided(r) =>
              (isValid[r] = "true" <=>
                  /\ ReceiptSucceeded(receiptReply[r])
                  /\ RecipientMatches(txReply[r], serverWallet)
                  /\ txReply[r].result.value \in PayingValues)

C2_Witness ==
    \E r \in Reqs :
        /\ isValid[r] = "true"
        /\ ReceiptSucceeded(receiptReply[r])
        /\ RecipientMatches(txReply[r], serverWallet)

\* C3: with a successful receipt and a matching recipient, a value one unit
\* below 10^15 is rejected, exactly 10^15 is accepted, every value above is
\* accepted, and an absent or empty value counts as zero and is rejected.
C3_ValueThreshold ==
    \A r \in Reqs :
        (Decided(r) /\ ReceiptSucceeded(receiptReply[r])
                    /\ RecipientMatches(txReply[r], serverWallet)) =>
            LET value == txReply[r].result.value
            IN  /\ value = Str(ValBelow) => isValid[r] = "false"
                /\ value = Str(ValExact) => isValid[r] = "true"
                /\ value \in {Str(ValAbove), Str(ValHuge)} => isValid[r] = "true"
                /\ value \in {JsUndefined, Str(<<>>)} => isValid[r] = "false"

C3_Witness ==
    \E r \in Reqs :
        /\ isValid[r] = "true"
        /\ RecipientMatches(txReply[r], serverWallet)
        /\ txReply[r].result.value = Str(ValExact)

\* C4: all other checks passing, a recipient that differs from the expected
\* address by letter case only is accepted; a recipient that differs in any
\* other way, or a transaction without a recipient, is rejected.
C4_RecipientCaseInsensitive ==
    \A r \in Reqs :
        (Decided(r) /\ ReceiptSucceeded(receiptReply[r]) /\ TransactionReturned(txReply[r])
                    /\ txReply[r].result.value \in PayingValues) =>
            LET to == txReply[r].result.to
            IN  /\ (to.t = "string" /\ EqualIgnoringCase(to.s, serverWallet.s))
                      => isValid[r] = "true"
                /\ (to.t = "string" /\ ~EqualIgnoringCase(to.s, serverWallet.s))
                      => isValid[r] = "false"
                /\ to.t \in {"null", "undefined"} => isValid[r] = "false"

C4_Witness ==
    \E r \in Reqs :
        /\ isValid[r] = "true"
        /\ txReply[r].result.to.s # serverWallet.s
        /\ EqualIgnoringCase(txReply[r].result.to.s, serverWallet.s)

\* C5: a receipt whose status is not the success sentinel, or is missing,
\* makes verifyPayment return false whatever the recipient and the value of
\* the transaction are.
C5_FailedStatusRejected ==
    \A r \in Reqs :
        (pc[r] \in {"transaction", "body", "done"}
            /\ receiptReply[r].k = "data" /\ receiptReply[r].result.t = "object"
            /\ receiptReply[r].result.status # Str(<<"0","x","1">>))
        => (pc[r] = "done" /\ isValid[r] = "false")

\* the node holds a failed or status-less receipt for a transaction that
\* pays enough to the right recipient
C5_Witness ==
    \E r \in Reqs :
        /\ isValid[r] = "false"
        /\ receiptReply[r].k = "data" /\ receiptReply[r].result.t = "object"
        /\ receiptReply[r].result.status # Str(<<"0","x","1">>)
        /\ held(paymentData[r].s).tx.t = "object"
        /\ held(paymentData[r].s).tx.to = serverWallet
        /\ held(paymentData[r].s).tx.value \in PayingValues

\* an oracle call of the request failed: the call threw (transport error or
\* a body that is not JSON), its result was null or missing, or a field of
\* the transaction was malformed (a recipient that is no string, a value
\* that is no number)
OracleFailed(r) ==
    \/ receiptReply[r].k = "throw"
    \/ receiptReply[r].k = "data" /\ receiptReply[r].result.t \in {"null", "undefined"}
    \/ txReply[r].k = "throw"
    \/ txReply[r].k = "data" /\ txReply[r].result.t \in {"null", "undefined"}
    \/ /\ TransactionReturned(txReply[r])
       /\ \/ txReply[r].result.to.t = "number"
          \/ txReply[r].result.value = Str(ValGarbage)

\* C6: when an oracle call fails in any way, verifyPayment returns false
\* (it does not throw) and the request is answered with the 402 rejection,
\* never with a 500.
C6_FailClosed ==
    \A r \in Reqs :
        OracleFailed(r) =>
            /\ pc[r] = "done"
            /\ isValid[r] = "false"
            /\ response[r].status = 402
            /\ "accepts" \notin DOMAIN response[r].body

\* a malformed field reached the verifier and was swallowed
C6_Witness ==
    \E r \in Reqs :
        /\ pc[r] = "done"
        /\ response[r].status = 402
        /\ ReceiptSucceeded(receiptReply[r])
        /\ RecipientMatches(txReply[r], serverWallet)
        /\ txReply[r].result.value = Str(ValGarbage)

\* C7: a request without proof header, the recipient being configured, is
\* answered with status 402 and a body whose accepts list has one entry, with
\* maxAmountRequired "1000000000000000", network "eip155:10143" and payTo the
\* configured recipient.
C7_ChallengeContents ==
    \A r \in Reqs :
        (pc[r] # "idle" /\ paymentData[r] = JsNull /\ Configured) =>
            /\ pc[r] = "done"
            /\ response[r].status = 402
            /\ "accepts" \in DOMAIN response[r].body
            /\ Len(response[r].body.accepts) = 1
            /\ response[r].body.accepts[1].maxAmountRequired =
                   <<"1","0","0","0","0","0","0","0","0","0","0","0","0","0","0","0">>
            /\ response[r].body.accepts[1].network = "eip155:10143"
            /\ response[r].body.accepts[1].payTo = serverWallet

C7_Witness ==
    \E r \in Reqs :
        /\ pc[r] = "done" /\ paymentData[r] = JsNull /\ Configured
        /\ response[r].status = 402

\* the header text is {"txHash":"<string>","verified":true} and <string>
\* denotes txHash
IsReceiptFor(text, txHash) ==
    LET prefix == <<"{", "\"", "t", "x", "H", "a", "s", "h", "\"", ":", "\"">>
        suffix == <<"\"", ",", "\"", "v", "e", "r", "i", "f", "i", "e", "d", "\"", ":",
                    "t", "r", "u", "e", "}">>
    IN  /\ Len(text) >= Len(prefix) + Len(suffix)
        /\ SubSeq(text, 1, Len(prefix)) = prefix
        /\ SubSeq(text, Len(text) - Len(suffix) + 1, Len(text)) = suffix
        /\ UnquoteJSONString(SubSeq(text, Len(prefix) + 1, Len(text) - Len(suffix))) = txHash

Admitted(r) == isValid[r] = "true"

\* C8 as stated: every admitted request is answered with status 200 and a
\* receipt header with verified = true and txHash the proof of the request.
C8_AdmittedAlways200 ==
    \A r \in Reqs :
        (Admitted(r) /\ pc[r] = "done") =>
            /\ response[r].status = 200
            /\ "XPaymentReceipt" \in DOMAIN response[r].headers
            /\ IsReceiptFor(response[r].headers.XPaymentReceipt, paymentData[r].s)

\* the request body was read and handed to streamText, which returned
ProcessedWithoutError(r) ==
    /\ body[r].t = "object"
    /\ body[r].messages.t \in {"undefined", "array"}
    /\ body[r].messages.t = "array" =>
           \A i \in 1..Len(body[r].messages.items) : body[r].messages.items[i].t = "object"
    /\ ~(response[r].status = 500 /\ response[r].body.error = "streamText failed")

\* C8 amended: every admitted request that is processed without an internal
\* error (the body is a JSON object, messages is absent or an array of
\* objects, streamText does not throw) is answered with status 200 and a
\* receipt header with verified = true and txHash the proof of the request;
\* and every response of status 200 carries that receipt.
C8_AdmittedReceipt ==
    \A r \in Reqs :
        /\ (Admitted(r) /\ pc[r] = "done" /\ ProcessedWithoutError(r)) =>
              response[r].status = 200
        /\ response[r].status = 200 =>
              /\ Admitted(r)
              /\ "XPaymentReceipt" \in DOMAIN response[r].headers
              /\ IsReceiptFor(response[r].headers.XPaymentReceipt, paymentData[r].s)

C8_Witness ==
    \E r \in Reqs :
        /\ Admitted(r) /\ pc[r] = "done" /\ response[r].status = 200
        /\ paymentData[r].s = HashKnown

\* C9: a request with a proof header for which verifyPayment returns false
\* is answered with status 402 and a body with x402Version 1, the
\* verification-failed message and no accepts list; the challenge has the
\* same status and the same headers, and a different body.
C9_RejectionVersusChallenge ==
    /\ \A r \in Reqs :
          (HasProof(r) /\ isValid[r] = "false") =>
              /\ pc[r] = "done"
              /\ response[r].status = 402
              /\ response[r].body.x402Version = 1
              /\ response[r].body.error =
                     "Payment verification failed. Please ensure the transaction is confirmed on Monad testnet."
              /\ "accepts" \notin DOMAIN response[r].body
    /\ \A r1, r2 \in Reqs :
          (/\ pc[r1] = "done" /\ Configured /\ ~HasProof(r1)
           /\ HasProof(r2) /\ isValid[r2] = "false") =>
              /\ response[r1].status = response[r2].status
              /\ response[r1].headers = response[r2].headers
              /\ response[r1].body # response[r2].body

C9_Witness ==
    \E r1, r2 \in Reqs :
        /\ pc[r1] = "done" /\ Configured /\ ~HasProof(r1)
        /\ pc[r2] = "done" /\ HasProof(r2) /\ isValid[r2] = "false"

\* C10: without a configured recipient every request, with or without proof
\* header, is answered with status 500 as a configuration error; no
\* challenge is sent, no oracle call is made and streamText is not called.
C10_ConfigurationError ==
    ~Configured =>
        \A r \in Reqs :
            /\ oracleCalls[r] = <<>>
            /\ streamTextCalls[r] = <<>>
            /\ pc[r] \in {"idle", "done"}
            /\ pc[r] = "done" =>
                  /\ response[r].status = 500
                  /\ response[r].body.error = "Server configuration error"
                  /\ "accepts" \notin DOMAIN response[r].body

C10_Witness ==
    \E r1, r2 \in Reqs :
        /\ ~Configured
        /\ pc[r1] = "done" /\ HasProof(r1)
        /\ pc[r2] = "done" /\ ~HasProof(r2)

\* ------------------------------------------------------------ the gate states
\* the state of the request gate a request is in, read off where POST
\* stands, what verifyPayment returned and what was answered
GateStateOf(where, valid, resp) ==
    IF where = "idle" THEN "AwaitingProof"
    ELSE IF valid = "true" THEN "Admitted"
    ELSE IF valid = "false" THEN "Rejected"
    ELSE IF where \in {"receipt", "transaction"} THEN "Verifying"
    ELSE IF where = "done" /\ resp.status = 402 THEN "Challenged"
    ELSE "Failed"

GateState(r) == GateStateOf(pc[r], isValid[r], response[r])

GateTransitions ==
    {<<"AwaitingProof", "Challenged">>, <<"AwaitingProof", "Verifying">>,
     <<"Verifying", "Rejected">>, <<"Verifying", "Admitted">>}

\* one step of the gate for request r
GateStep(r) ==
    LET before == GateState(r)
        after == GateStateOf(pc'[r], isValid'[r], response'[r])
    IN  /\ \/ after = before
           \/ <<before, after>> \in GateTransitions
           \/ before = "AwaitingProof" /\ after = "Failed" /\ ~Configured
        /\ (after = "Challenged" /\ before # after) => ~Truthy(paymentData'[r])
        /\ (after = "Verifying" /\ before # after) => HasProof(r)'
        /\ before \in {"Rejected", "Admitted"} => oracleCalls'[r] = oracleCalls[r]
        /\ before \in {"Rejected", "Challenged", "Failed"} =>
              /\ pc'[r] = pc[r]
              /\ response'[r] = response[r]
              /\ streamTextCalls'[r] = streamTextCalls[r]

\* C11: a request moves only AwaitingProof -> Challenged (no proof) or
\* AwaitingProof -> Verifying (proof present), and Verifying -> Rejected or
\* Admitted (a missing recipient configuration fails the request instead);
\* Challenged is never entered with a proof, Verifying never without one, and
\* a Rejected or Admitted request keeps its state: it is not verified again.
C11_GateTransitions == [][\A r \in Reqs : GateStep(r)]_vars

C11_Witness ==
    \E r1, r2 \in Reqs :
        /\ GateState(r1) = "Rejected" /\ Len(oracleCalls[r1]) = 2
        /\ GateState(r2) = "Admitted" /\ pc[r2] = "done"

\* the oracle reports for request r a successful payment to the recipient
OracleReportsValid(r) ==
    /\ ReceiptSucceeded(receiptReply[r])
    /\ RecipientMatches(txReply[r], serverWallet)
    /\ txReply[r].result.value \in PayingValues

\* C12: no record of redeemed proofs is kept: when a transaction hash has
\* admitted one request, every other request presenting the same hash, for
\* which the oracle again reports the valid transaction, is admitted too.
C12_ReplayAdmitted ==
    \A r1, r2 \in Reqs :
        (/\ r1 # r2
         /\ isValid[r1] = "true"
         /\ paymentData[r2] = paymentData[r1]
         /\ pc[r2] \in {"body", "done"}
         /\ OracleReportsValid(r2))
        => isValid[r2] = "true"

\* every request of the behaviour presents the same hash and is admitted
C12_Witness ==
    /\ \A r \in Reqs : isValid[r] = "true" /\ pc[r] = "done" /\ response[r].status = 200
    /\ \A r1, r2 \in Reqs : paymentData[r1] = paymentData[r2]

\* the completion capability failed for the request
StreamTextFailed(r) ==
    /\ pc[r] = "done"
    /\ response[r].status = 500
    /\ response[r].body.error = "streamText failed"

\* the two requests had the same header, the same oracle answers, the same
\* body and the same fate of the completion call
SameInputs(r1, r2) ==
    /\ paymentData[r1] = paymentData[r2]
    /\ receiptReply[r1] = receiptReply[r2]
    /\ txReply[r1] = txReply[r2]
    /\ body[r1] = body[r2]
    /\ StreamTextFailed(r1) <=> StreamTextFailed(r2)

\* what a step leaves of request q
RequestState(q) ==
    <<pc[q], paymentData[q], receiptReply[q], txReply[q], isValid[q], oracleCalls[q],
      body[q], streamTextCalls[q], response[q]>>

\* C13: requests are handled independently: two finished requests with the
\* same header, oracle answers and body have the same outcome whatever else
\* was handled in between, and a step of one request leaves every other
\* request, the configuration and the ledger as they were.
C13_RequestsIndependent ==
    /\ [](\A r1, r2 \in Reqs :
            (pc[r1] = "done" /\ pc[r2] = "done" /\ SameInputs(r1, r2)) =>
                /\ response[r1] = response[r2]
                /\ isValid[r1] = isValid[r2]
                /\ oracleCalls[r1] = oracleCalls[r2]
                /\ streamTextCalls[r1] = streamTextCalls[r2])
    /\ [][\E r \in Reqs : \A q \in Reqs \ {r} : RequestState(q)' = RequestState(q)]_vars

\* two requests were handled in an interleaved way and both were admitted
C13_Witness ==
    \E r1, r2 \in Reqs :
        /\ r1 # r2
        /\ pc[r1] = "done" /\ pc[r2] = "done"
        /\ SameInputs(r1, r2)
        /\ response[r1].status = 200

\* C14: verification is a function of what the oracle answers: the same proof
\* verified twice with the same answers gives the same result, and no step of
\* the verification changes the ledger or the server's configuration.
C14_VerificationIdempotent ==
    /\ [](\A r1, r2 \in Reqs :
            (/\ Decided(r1) /\ Decided(r2)
             /\ paymentData[r1] = paymentData[r2]
             /\ receiptReply[r1] = receiptReply[r2]
             /\ txReply[r1] = txReply[r2])
            => isValid[r1] = isValid[r2])
    /\ [][ledger' = ledger /\ serverWallet' = serverWallet]_vars

\* the same valid proof was verified twice
C14_Witness ==
    \E r1, r2 \in Reqs :
        /\ r1 # r2
        /\ paymentData[r1] = paymentData[r2]
        /\ isValid[r1] = "true" /\ isValid[r2] = "true"
        /\ txReply[r1] = txReply[r2]

\* the roles of a ChatRequest message
ChatRoles == {"user", "assistant", "system"}

\* C15: whenever streamText is called, the messages passed to it are a
\* non-empty sequence, also for an admitted request whose body has no
\* messages field.
C15_MessagesNonEmpty ==
    \A r \in Reqs : \A i \in 1..Len(streamTextCalls[r]) :
        Len(streamTextCalls[r][i].messages) > 0

\* C16: every message passed to streamText has a role among user, assistant
\* and system.
C16_RolesEnumerated ==
    \A r \in Reqs : \A i \in 1..Len(streamTextCalls[r]) :
        \A k \in 1..Len(streamTextCalls[r][i].messages) :
            streamTextCalls[r][i].messages[k].role \in ChatRoles

\* the body of the request was read and its messages field is present but
\* not an array
MessagesNotAnArray(r) ==
    /\ pc[r] = "done"
    /\ body[r].t = "object"
    /\ body[r].messages.t \notin {"undefined", "array"}

\* C17: an admitted request whose messages field is present but not an array
\* is answered with a status between 400 and 499, and streamText is not
\* called for it.
C17_MalformedBodyClientError ==
    \A r \in Reqs :
        (Admitted(r) /\ MessagesNotAnArray(r)) =>
            /\ response[r].status \in 400..499
            /\ streamTextCalls[r] = <<>>

\* C18: streamText is called with the model the body names when that is one
\* of the recognized identifiers and with the default model gemini-2.5-flash
\* otherwise; the identifier alone never makes the request fail.
C18_ModelFallback ==
    \A r \in Reqs :
        (Admitted(r) /\ pc[r] = "done" /\ body[r].t = "object" /\ bodyError(body[r]) = "") =>
            /\ Len(streamTextCalls[r]) = 1
            /\ streamTextCalls[r][1].model =
                   IF body[r].model \in KnownModels THEN body[r].model ELSE "gemini-2.5-flash"

\* ------------------------------------------------------- the client's claims
\* the requests of submission n, and the first of them
RequestsOf(n) == {r \in Reqs : sent[r] # NoRequest /\ sent[r].submission = n}
FirstRequestOf(n) == CHOOSE r \in RequestsOf(n) : \A q \in RequestsOf(n) : r <= q

\* the page has read the response to the first request of submission n
FirstResponseRead(n) ==
    /\ RequestsOf(n) # {}
    /\ pc[FirstRequestOf(n)] = "done"
    /\ (submission > n \/ cpc \notin {"preflight", "first"})

\* the payment options of the response to request r
OptionsOf(r) == acceptsOf(response[r].body)

TransfersOf(n) == {k \in 1..Len(transfers) : transfers[k].submission = n}

\* C19: a transfer is submitted only after a 402 response with a payment
\* option, once per submission and to accepts[0].payTo, and it is submitted
\* whenever such a response was read; with no payment option there is no
\* transfer; a request carries a proof header only when the transfer of its
\* submission is confirmed on chain, and the header is that transfer's hash.
C19_ClientOrdering ==
    /\ \A n \in 1..submission :
        FirstResponseRead(n) =>
            LET r == FirstRequestOf(n)
            IN  IF response[r].status = 402 /\ OptionsOf(r) # <<>>
                THEN /\ Cardinality(TransfersOf(n)) = 1
                     /\ \A k \in TransfersOf(n) : transfers[k].to = OptionsOf(r)[1].payTo
                ELSE TransfersOf(n) = {}
    /\ \A k \in 1..Len(transfers) : FirstResponseRead(transfers[k].submission)
    /\ \A r \in Reqs :
        (sent[r] # NoRequest /\ sent[r].xPayment # JsNull) =>
            \E k \in TransfersOf(sent[r].submission) :
                /\ transfers[k].state = "confirmed"
                /\ transfers[k].hash = sent[r].xPayment
                /\ ledger[sent[r].xPayment.s].receipt # JsNull

Cancelled == Toast("warning", "Transaction Cancelled")
GenericError == Toast("error", "Error")

\* the wallet reports in this step that the user declined to sign
RejectedNow ==
    /\ cpc = "wallet"
    /\ Len(transfers') = Len(transfers)
    /\ transfers'[Len(transfers)].state = "rejected"

\* the transfer fails in this step for another reason
FailedNow ==
    /\ cpc = "wallet"
    /\ Len(transfers') = Len(transfers)
    /\ transfers'[Len(transfers)].state = "failed"

\* C20: in handleFormSubmit a rejection of the signing prompt ends the
\* submission with the toast Transaction Cancelled, where any other failure
\* of the transfer ends it with the toast Error; the step sends no request,
\* and the submission never gets a request with a proof header or a second
\* transfer.
C20_RejectionCancels ==
    /\ [][page = "part_002" =>
            /\ RejectedNow =>
                /\ toasts' = Append(toasts, Cancelled)
                /\ cpc' = "ready"
                /\ ~isSubmitting'
                /\ sent' = sent
                /\ storage' = storage
            /\ FailedNow => toasts' = Append(toasts, GenericError)]_vars
    /\ [](page = "part_002" =>
            \A k \in 1..Len(transfers) :
                transfers[k].state = "rejected" =>
                    /\ TransfersOf(transfers[k].submission) = {k}
                    /\ \A r \in RequestsOf(transfers[k].submission) : sent[r].xPayment = JsNull
                    /\ Cardinality(RequestsOf(transfers[k].submission)) = 1)

\* the user has declined and the submission has ended with the cancellation
C20_Witness ==
    /\ page = "part_002"
    /\ cpc = "ready"
    /\ Len(transfers) = 1
    /\ transfers[1].state = "rejected"
    /\ toasts # <<>>
    /\ toasts[Len(toasts)] = Cancelled

\* C21: whenever a part of a response body has been sent for a request, the
\* response returned for it has status 200 and carries the receipt header
\* (for POST of part_000 the receipt of the request's proof), and the
\* response does not change while its body is sent.
C21_ReceiptBeforeBody ==
    /\ [](\A r \in Reqs :
            streamed[r] # <<>> =>
                /\ pc[r] = "done"
                /\ response[r].status = 200
                /\ "XPaymentReceipt" \in DOMAIN response[r].headers
                /\ endpoint = "part_000" =>
                       /\ Admitted(r)
                       /\ IsReceiptFor(response[r].headers.XPaymentReceipt, paymentData[r].s))
    /\ [][\A r \in Reqs : response[r].status = 200 => response'[r] = response[r]]_vars

\* a chunk of the completion has been sent for an admitted request
C21_Witness ==
    \E r \in Reqs :
        /\ endpoint = "part_000"
        /\ Admitted(r)
        /\ Len(streamed[r]) >= 1
        /\ streamed[r][1].k = "chunk"

ReceiptCall(r) == [method |-> "eth_getTransactionReceipt", params |-> <<paymentData[r].s>>]
TransactionCall(r) == [method |-> "eth_getTransactionByHash", params |-> <<paymentData[r].s>>]

\* C22: a request issues at most two oracle calls, the receipt fetch first
\* and the transaction fetch second; the transaction fetch is issued in the
\* step in which the receipt fetch returns a receipt with the success status
\* and never otherwise; a request rejected on the receipt has issued exactly
\* one call; no call is ever repeated.
C22_OracleCallOrder ==
    /\ [](\A r \in Reqs :
            /\ oracleCalls[r] # <<>> =>
                   /\ HasProof(r)
                   /\ oracleCalls[r] \in {<<ReceiptCall(r)>>, <<ReceiptCall(r), TransactionCall(r)>>}
            /\ Len(oracleCalls[r]) = 2 <=> ReceiptSucceeded(receiptReply[r])
            /\ (Decided(r) /\ ~ReceiptSucceeded(receiptReply[r])) =>
                   /\ isValid[r] = "false"
                   /\ oracleCalls[r] = <<ReceiptCall(r)>>
                   /\ txReply[r] = NoReply)
    /\ [][\A r \in Reqs :
            \/ oracleCalls'[r] = oracleCalls[r]
            \/ oracleCalls[r] = <<>> /\ receiptReply[r] = NoReply
            \/ /\ Len(oracleCalls[r]) = 1
               /\ receiptReply[r] = NoReply
               /\ ReceiptSucceeded(receiptReply'[r])]_vars

\* one request was rejected on the receipt after one call, another went on
\* to the transaction fetch
C22_Witness ==
    \E r1, r2 \in Reqs :
        /\ isValid[r1] = "false"
        /\ receiptReply[r1] = RpcData(JsNull)
        /\ oracleCalls[r1] = <<ReceiptCall(r1)>>
        /\ Decided(r2)
        /\ Len(oracleCalls[r2]) = 2

\* request r is the chat request of handleFormSubmit with a proof header,
\* sent to POST of part_000
HonestFollowUp(r) ==
    /\ page = "part_002"
    /\ endpoint = "part_000"
    /\ sent[r] # NoRequest
    /\ sent[r].xPayment # JsNull

\* the oracle has answered the queries of request r with what the node holds
FaithfulAnswers(r) ==
    /\ HasProof(r)
    /\ receiptReply[r] = RpcData(ledger[paymentData[r].s].receipt)
    /\ txReply[r] = RpcData(ledger[paymentData[r].s].tx)

AnsweredWithoutProof(r) == pc[r] = "done" /\ ~HasProof(r) /\ Configured

\* C24: a request without a proof issues no oracle call; its challenge names
\* the same address as payTo and as extra.recipientAddress, namely
\* SERVER_WALLET; and any two such requests get the same response.
C24_ChallengeDeterministic ==
    \A r1, r2 \in Reqs :
        (AnsweredWithoutProof(r1) /\ AnsweredWithoutProof(r2)) =>
            /\ oracleCalls[r1] = <<>>
            /\ receiptReply[r1] = NoReply /\ txReply[r1] = NoReply
            /\ response[r1].status = 402
            /\ Len(response[r1].body.accepts) = 1
            /\ response[r1].body.accepts[1].payTo = serverWallet
            /\ response[r1].body.accepts[1].extra.recipientAddress =
                   response[r1].body.accepts[1].payTo
            /\ response[r1] = response[r2]

\* two requests without proof were answered, one with no header and one with
\* an empty header
C24_Witness ==
    \E r1, r2 \in Reqs :
        /\ AnsweredWithoutProof(r1) /\ AnsweredWithoutProof(r2)
        /\ paymentData[r1] = JsNull
        /\ paymentData[r2] = Str(<<>>)

\* the handler of either endpoint got past the payment gate for request r:
\* verifyPayment returned true, or settlePayment reported status 200
PastGate(r) ==
    IF endpoint = "part_000" THEN Admitted(r) ELSE streamTextCalls[r] # <<>>

\* request r got past the gate and was answered with something other than the
\* stream
FailedAfterAdmission(r) ==
    /\ sent[r] # NoRequest
    /\ pc[r] = "done"
    /\ PastGate(r)
    /\ response[r].status # 200

\* C25: a request that fails after admission is answered with status 500 and
\* a body with an error message and a details field, and no step of the
\* server changes what the node holds about any transaction.
C25_FailureAfterAdmission ==
    /\ [](\A r \in Reqs : FailedAfterAdmission(r) =>
            /\ response[r].status = 500
            /\ "error" \in DOMAIN response[r].body
            /\ "details" \in DOMAIN response[r].body)
    /\ [][ledger' = ledger]_vars

\* verifyPayment is waiting for the oracle's answer to a call made for r
AwaitingOracle(r) == pc[r] \in {"receipt", "transaction"}

\* C26: while a call to the oracle is outstanding the request has no response
\* of any status, and the only step that ends the wait is the one in which
\* the oracle's answer (a result or a failure) arrives; when every awaited
\* call does return or fail, every waiting request is answered.
C26_NoTimeout ==
    /\ [](\A r \in Reqs : AwaitingOracle(r) => response[r] = NoResponse)
    /\ [][\A r \in Reqs : (AwaitingOracle(r) /\ pc'[r] # pc[r]) =>
            \/ pc[r] = "receipt" /\ receiptReply[r] = NoReply /\ receiptReply'[r] # NoReply
            \/ pc[r] = "transaction" /\ txReply[r] = NoReply /\ txReply'[r] # NoReply]_vars
    /\ \A r \in Reqs : AwaitingOracle(r) ~> pc[r] = "done"

\* the receipt query was answered and the transaction query is outstanding
C26_Witness ==
    \E r \in Reqs :
        /\ pc[r] = "transaction"
        /\ Len(oracleCalls[r]) = 2
        /\ txReply[r] = NoReply
        /\ response[r] = NoResponse

\* POST has answered request r, whose proof header was present and empty
AnsweredEmptyProof(r) == pc[r] = "done" /\ paymentData[r] = Str(<<>>)

\* C27: a request whose proof header is the empty string is answered like a
\* request without the header: with the challenge of status 402 when the
\* server is configured, with the very response an absent header gets, with
\* no oracle call and no verdict; no oracle call carries an empty proof.
C27_EmptyProofAsAbsent ==
    /\ \A r \in Reqs : AnsweredEmptyProof(r) =>
            /\ oracleCalls[r] = <<>>
            /\ isValid[r] = "pending"
            /\ Configured => /\ response[r].status = 402
                             /\ "accepts" \in DOMAIN response[r].body
            /\ \A q \in Reqs : (pc[q] = "done" /\ paymentData[q] = JsNull) =>
                    response[q] = response[r]
    /\ \A r \in Reqs : oracleCalls[r] # <<>> => paymentData[r] \notin {JsNull, Str(<<>>)}

\* one request came with an empty header and one without, and both were
\* challenged
C27_Witness ==
    \E r, q \in Reqs :
        /\ AnsweredEmptyProof(r)
        /\ pc[q] = "done" /\ paymentData[q] = JsNull
        /\ response[r].status = 402
        /\ response[q].status = 402

\* the page waits for the answer to the request that follows the payment
\* decision, or reads its stream
FollowUpSent == cpc \in {"chat", "reading", "retry"}

ChatRequests ==
    {r \in Reqs : /\ sent[r] # NoRequest
                  /\ r # FirstRequestOf(sent[r].submission)}

\* the hashes of the transfers confirmed in submission n
ConfirmedIn(n) ==
    {transfers[k].hash : k \in {j \in TransfersOf(n) : transfers[j].state = "confirmed"}}

\* C29: on the page of part_002 the preflight carries no proof; the chat
\* request carries a proof header exactly when a transfer of its submission
\* was confirmed, and the header is that transfer's hash; no hash is attached
\* to two requests; and whenever the page waits or is idle nothing is stored
\* under x402_payment_hash.
C29_ProofHeaderFromSameSubmission ==
    page = "part_002" =>
        /\ \A r \in Reqs : (sent[r] # NoRequest /\ r \notin ChatRequests) =>
                sent[r].xPayment = JsNull
        /\ \A r \in ChatRequests :
                /\ sent[r].xPayment # JsNull <=> ConfirmedIn(sent[r].submission) # {}
                /\ sent[r].xPayment # JsNull =>
                        ConfirmedIn(sent[r].submission) = {sent[r].xPayment}
        /\ \A r, q \in Reqs :
                (/\ sent[r] # NoRequest /\ sent[q] # NoRequest
                 /\ sent[r].xPayment # JsNull
                 /\ sent[r].xPayment = sent[q].xPayment) => r = q
        /\ storage = JsNull

\* the chat request went out with the hash of the transfer confirmed in its
\* submission and the store is empty again
C29_Witness ==
    /\ page = "part_002"
    /\ storage = JsNull
    /\ \E r \in ChatRequests :
        /\ sent[r].xPayment # JsNull
        /\ sent[r].xPayment = lastTxHash
        /\ ConfirmedIn(sent[r].submission) = {sent[r].xPayment}

\* the last submission has finished
SubmissionFinished == submission >= 1 /\ cpc = "ready"

\* the payment flow of the last submission failed: its transfer was rejected
\* or failed, its challenge offered no payment option, or the request that
\* carried the proof was refused
PaymentFlowFailed ==
    \/ \E k \in TransfersOf(submission) : transfers[k].state \in {"rejected", "failed"}
    \/ /\ FirstResponseRead(submission)
       /\ response[FirstRequestOf(submission)].status = 402
       /\ TransfersOf(submission) = {}
    \/ \E r \in RequestsOf(submission) :
            /\ sent[r].xPayment # JsNull
            /\ pc[r] = "done"
            /\ ~ok(response[r])

\* C30: once a submission has finished paymentStatus is not 'pending'; after
\* a failed payment flow it is 'error' or 'idle'; and it is 'success' only
\* when a transfer has been confirmed.
C30_PaymentStatusSettles ==
    /\ SubmissionFinished => paymentStatus # "pending"
    /\ (SubmissionFinished /\ PaymentFlowFailed) => paymentStatus \in {"error", "idle"}
    /\ paymentStatus = "success" =>
            \E k \in 1..Len(transfers) : transfers[k].state = "confirmed"

\* the texts of the chunks among the items of a body, one after the other
RECURSIVE Concatenation(_)
Concatenation(items) ==
    IF items = <<>> THEN <<>>
    ELSE (IF Head(items) = EndOfStream THEN <<>> ELSE Head(items).text)
         \o Concatenation(Tail(items))

\* the page of part_002 is reading the body of a response of status 200 that
\* is sent as plain text
ReadingPlainText ==
    /\ page = "part_002"
    /\ cpc = "reading"
    /\ response[awaiting].body.stream = "text"

\* C31: while and after the page reads a plain-text body, the content of the
\* assistant message is the concatenation, in order of arrival, of the
\* chunks read so far: nothing dropped, doubled or reordered.
C31_StreamFormatAgreement ==
    ReadingPlainText =>
        /\ messages[Len(messages)].role = "assistant"
        /\ messages[Len(messages)].content =
               Concatenation(SubSeq(streamed[awaiting], 1, consumed))

====
